---------------------------- MODULE Spec2Model ----------------------------
(***************************************************************************)
(* Needleman-Wunsch global alignment (NW.py): build_dp_table, trace_back,  *)
(* align_strings and get_best_alignment, run in the order main() runs them.*)
(* Strings are sequences of one-character strings; a matrix coordinate     *)
(* (row, col) is the pair <<row, col>>; Python list index i is TLA+ index  *)
(* i + 1.                                                                  *)
(***************************************************************************)
EXTENDS Integers, Sequences, FiniteSets, TLC

VARIABLES seq1, seq2, param, dp, direction, stk, paths, pathId, divFlag,
          dividerNode, pushCount, popCount, originPops, alignedStrings,
          scores, bestAlignment, maxScore, pc

vars == <<seq1, seq2, param, dp, direction, stk, paths, pathId, divFlag,
          dividerNode, pushCount, popCount, originPops, alignedStrings,
          scores, bestAlignment, maxScore, pc>>

(***************************************************************************)
(* Bounds of the model and the inputs drawn from them.                     *)
(***************************************************************************)
MaxLen == 2

Alphabet == {"A", "G", "C", "T", "X"}

SeqsUpTo(S, k) == UNION {[1..len -> S] : len \in 0..k}

\* the scheme main() passes
DefaultParam == [identity |-> 4, transition |-> -2, transversion |-> -3, gap |-> -8]

SmallParams == [identity : {0, 1}, transition : {-1, 0},
                transversion : {-1, 0}, gap : {-1, 0}]

Params == {DefaultParam} \cup SmallParams

\* value of a variable that has not been assigned yet
None == <<>>

(***************************************************************************)
(* build_dp_table                                                          *)
(***************************************************************************)
Purines == {"A", "G"}
Pyrimidines == {"C", "T"}

\* as MatchScore, with the pyrimidine pair left out of the transition test
MatchScorePurinesOnly(char1, char2, p) ==
    IF char1 = char2 THEN p.identity
    ELSE IF char1 \in Purines /\ char2 \in Purines THEN p.transition
         ELSE p.transversion

\* the if / elif / else of lines 54-62: what is added to d
MatchScore(char1, char2, p) ==
    IF char1 = char2 THEN p.identity
    ELSE IF (char1 \in Purines /\ char2 \in Purines)
            \/ (char1 \in Pyrimidines /\ char2 \in Pyrimidines)
         THEN p.transition
         ELSE p.transversion

\* max( l, u, d ) of line 63
Max3(a, b, c) ==
    LET ab == IF a >= b THEN a ELSE b IN IF ab >= c THEN ab ELSE c

Cells(m, n) == (0..m) \X (0..n)

(***************************************************************************)
(* np.empty( seqLength, dtype = '<U10' ) of line 34 allocates the array    *)
(* without writing to it, so a cell that is never assigned holds whatever  *)
(* the allocator's memory held: zero bytes (the empty string), text equal  *)
(* to one of the strings trace_back compares against, or any other text    *)
(* (OtherText).  Memory that does not decode as text is left out.          *)
(***************************************************************************)
OtherText == "?"
DirCodes == {"l", "u", "d", "ld", "lu", "ud", "lud"}
UninitOutcomes == {""} \cup DirCodes \cup {OtherText}

\* lines 34-36: the allocation and the two slice assignments
DirectionInit(m, n, junk) ==
    [cell \in Cells(m, n) |->
        IF cell[1] = 0 /\ cell[2] >= 1 THEN "l"
        ELSE IF cell[2] = 0 /\ cell[1] >= 1 THEN "u"
        ELSE junk]

\* lines 41-42: for row in range( 1, seqLength[0] )
RECURSIVE InitCol0(_, _, _, _)
InitCol0(tbl, row, m, gap) ==
    IF row > m THEN tbl
    ELSE InitCol0([tbl EXCEPT ![<<row, 0>>] = tbl[<<row - 1, 0>>] + gap],
                  row + 1, m, gap)

\* lines 43-44: for col in range( 1, seqLength[1] )
RECURSIVE InitRow0(_, _, _, _)
InitRow0(tbl, col, n, gap) ==
    IF col > n THEN tbl
    ELSE InitRow0([tbl EXCEPT ![<<0, col>>] = tbl[<<0, col - 1>>] + gap],
                  col + 1, n, gap)

\* lines 65-71: the arrows of one cell, concatenated in the order l, u, d
DirString(score, l, u, d) ==
    (IF score = l THEN "l" ELSE "") \o (IF score = u THEN "u" ELSE "")
        \o (IF score = d THEN "d" ELSE "")

\* lines 49-76: the body of the inner loop for one cell
FillCell(t, s1, s2, p, row, col) ==
    LET l == t.dp[<<row, col - 1>>] + p.gap
        u == t.dp[<<row - 1, col>>] + p.gap
        d == t.dp[<<row - 1, col - 1>>] + MatchScore(s1[row], s2[col], p)
        score == Max3(l, u, d)
    IN  [dp |-> [t.dp EXCEPT ![<<row, col>>] = score],
         direction |-> [t.direction EXCEPT ![<<row, col>>] = DirString(score, l, u, d)]]

\* lines 46-47: the nested loops, row-major from (row, col)
RECURSIVE FillFrom(_, _, _, _, _, _)
FillFrom(t, s1, s2, p, row, col) ==
    IF row > Len(s1) THEN t
    ELSE IF col > Len(s2) THEN FillFrom(t, s1, s2, p, row + 1, 1)
    ELSE FillFrom(FillCell(t, s1, s2, p, row, col), s1, s2, p, row, col + 1)

\* build_dp_table( seq, param ), with junk the content of the fresh array
BuildTables(s1, s2, p, junk) ==
    LET m == Len(s1)
        n == Len(s2)
        zeros == [cell \in Cells(m, n) |-> 0]
        dp0 == InitRow0(InitCol0(zeros, 1, m, p.gap), 1, n, p.gap)
    IN  FillFrom([dp |-> dp0, direction |-> DirectionInit(m, n, junk)],
                 s1, s2, p, 1, 1)

BuildDpTable ==
    /\ pc = "build"
    /\ \E junk \in UninitOutcomes :
         LET t == BuildTables(seq1, seq2, param, junk)
         IN  /\ dp' = t.dp
             /\ direction' = t.direction
    /\ pc' = "trace"
    /\ UNCHANGED <<seq1, seq2, param, stk, paths, pathId, divFlag, dividerNode,
                   pushCount, popCount, originPops, alignedStrings, scores,
                   bestAlignment, maxScore>>

(***************************************************************************)
(* trace_back                                                              *)
(***************************************************************************)
\* lines 89-99
TraceBackInit ==
    /\ pc = "trace"
    /\ stk' = << <<Len(seq1), Len(seq2)>> >>
    /\ pathId' = 0
    /\ paths' = << <<>> >>
    /\ divFlag' = FALSE
    /\ pushCount' = 1
    /\ pc' = "loop"
    /\ UNCHANGED <<seq1, seq2, param, dp, direction, dividerNode, popCount,
                   originPops, alignedStrings, scores, bestAlignment, maxScore>>

\* numpy's direction[row, col]: an index below zero counts from the end, an
\* index outside -size .. size - 1 raises IndexError
IndexInRange(i, size) == i >= -size /\ i <= size - 1
NormIndex(i, size) == IF i < 0 THEN i + size ELSE i

\* list.index( x ) as a Python index, -1 standing for ValueError
RECURSIVE IndexFrom(_, _, _)
IndexFrom(list, x, i) ==
    IF i > Len(list) THEN -1
    ELSE IF list[i] = x THEN i - 1
    ELSE IndexFrom(list, x, i + 1)
ListIndex(list, x) == IndexFrom(list, x, 1)

\* the successors pushed for one direction string, in push order, lines 104-129
Pushes(x, row, col) ==
    CASE x = "u" -> << <<row - 1, col>> >>
      [] x = "d" -> << <<row - 1, col - 1>> >>
      [] x = "l" -> << <<row, col - 1>> >>
      [] x = "ld" -> << <<row - 1, col - 1>>, <<row, col - 1>> >>
      [] x = "lu" -> << <<row - 1, col - 1>>, <<row, col - 1>> >>
      [] x = "ud" -> << <<row - 1, col>>, <<row - 1, col - 1>> >>
      [] x = "lud" -> << <<row, col - 1>>, <<row - 1, col - 1>>, <<row - 1, col>> >>
      [] OTHER -> << >>

\* the branches that assign dividerNode, and those that set divFlag
SetsDivider(x) == x \in {"ld", "lu", "ud", "lud"}
SetsDivFlag(x) == x \in {"lu", "ud", "lud"}

\* line 131-133: close the current path and open the next one
ClosePath(ps, id, flag, node) ==
    LET prev == ps[id + 1]
    IN  Append(ps, IF flag THEN SubSeq(prev, 1, ListIndex(prev, node) + 1)
                   ELSE <<>>)

\* one iteration of the while loop, lines 100-134
TraceBackStep ==
    /\ pc = "loop"
    /\ Len(stk) /= 0
    /\ LET top == stk[Len(stk)]
           row == top[1]
           col == top[2]
           rows == Len(seq1) + 1
           cols == Len(seq2) + 1
           appended == [paths EXCEPT ![pathId + 1] = Append(@, top)]
           popped == SubSeq(stk, 1, Len(stk) - 1)
       IN  /\ popCount' = popCount + 1
           /\ originPops' = originPops + (IF top = <<0, 0>> THEN 1 ELSE 0)
           /\ IF ~(IndexInRange(row, rows) /\ IndexInRange(col, cols))
              THEN \* IndexError at line 104
                   /\ pc' = "trace_back_raised"
                   /\ stk' = popped
                   /\ paths' = appended
                   /\ UNCHANGED <<pathId, divFlag, dividerNode, pushCount>>
              ELSE LET x == direction[<<NormIndex(row, rows), NormIndex(col, cols)>>]
                   IN  IF x = ""
                       THEN IF divFlag /\ ListIndex(appended[pathId + 1], dividerNode) = -1
                            THEN \* ValueError of list.index at line 133
                                 /\ pc' = "trace_back_raised"
                                 /\ stk' = popped
                                 /\ paths' = Append(appended, <<>>)
                                 /\ pathId' = pathId + 1
                                 /\ UNCHANGED <<divFlag, dividerNode, pushCount>>
                            ELSE /\ pc' = "loop"
                                 /\ stk' = popped
                                 /\ paths' = ClosePath(appended, pathId, divFlag, dividerNode)
                                 /\ pathId' = pathId + 1
                                 /\ UNCHANGED <<divFlag, dividerNode, pushCount>>
                       ELSE /\ pc' = "loop"
                            /\ stk' = popped \o Pushes(x, row, col)
                            /\ pushCount' = pushCount + Len(Pushes(x, row, col))
                            /\ paths' = appended
                            /\ dividerNode' = IF SetsDivider(x) THEN top ELSE dividerNode
                            /\ divFlag' = (divFlag \/ SetsDivFlag(x))
                            /\ UNCHANGED pathId
    /\ UNCHANGED <<seq1, seq2, param, dp, direction, alignedStrings, scores,
                   bestAlignment, maxScore>>

\* lines 135-136: the loop has ended
TraceBackReturn ==
    /\ pc = "loop"
    /\ Len(stk) = 0
    /\ paths' = SubSeq(paths, 1, Len(paths) - 1)
    /\ pc' = "align"
    /\ UNCHANGED <<seq1, seq2, param, dp, direction, stk, pathId, divFlag,
                   dividerNode, pushCount, popCount, originPops, alignedStrings,
                   scores, bestAlignment, maxScore>>

(***************************************************************************)
(* align_strings                                                           *)
(***************************************************************************)
Gap == "_"

\* str[::-1]
Reverse(str) == [i \in 1..Len(str) |-> str[Len(str) + 1 - i]]

\* lines 153-166: what one pair of consecutive coordinates appends
AlignStep(acc, cur, next, s1, s2) ==
    IF next[1] + 1 = cur[1] /\ next[2] + 1 = cur[2]
    THEN <<Append(acc[1], s1[cur[1]]), Append(acc[2], s2[cur[2]])>>
    ELSE IF next[1] + 1 = cur[1]
    THEN <<Append(acc[1], s1[cur[1]]), Append(acc[2], Gap)>>
    ELSE IF next[2] + 1 = cur[2]
    THEN <<Append(acc[1], Gap), Append(acc[2], s2[cur[2]])>>
    ELSE acc

\* lines 152-166: for id in range( 1, len( path ) ), id being the Python index
RECURSIVE AlignFrom(_, _, _, _, _)
AlignFrom(acc, path, id, s1, s2) ==
    IF id >= Len(path) THEN acc
    ELSE AlignFrom(AlignStep(acc, path[id], path[id + 1], s1, s2),
                   path, id + 1, s1, s2)

\* lines 151-167 for one path
AlignPath(path, s1, s2) ==
    LET strs == AlignFrom(<< <<>>, <<>> >>, path, 1, s1, s2)
    IN  <<Reverse(strs[1]), Reverse(strs[2])>>

AlignStrings ==
    /\ pc = "align"
    /\ alignedStrings' = [k \in 1..Len(paths) |-> AlignPath(paths[k], seq1, seq2)]
    /\ pc' = "best"
    /\ UNCHANGED <<seq1, seq2, param, dp, direction, stk, paths, pathId, divFlag,
                   dividerNode, pushCount, popCount, originPops, scores,
                   bestAlignment, maxScore>>

(***************************************************************************)
(* get_best_alignment                                                      *)
(***************************************************************************)
\* lines 189-200: what one column adds to score
ColumnScore(char1, char2, p) ==
    IF char1 = char2 THEN p.identity
    ELSE IF (char1 \in Purines /\ char2 \in Purines)
            \/ (char1 \in Pyrimidines /\ char2 \in Pyrimidines)
         THEN p.transition
    ELSE IF char1 = Gap \/ char2 = Gap THEN p.gap
    ELSE p.transversion

\* lines 185-200: for idx in range( len( align1 ) )
RECURSIVE ScoreFrom(_, _, _, _)
ScoreFrom(alignment, idx, score, p) ==
    IF idx > Len(alignment[1]) THEN score
    ELSE ScoreFrom(alignment, idx + 1,
                   score + ColumnScore(alignment[1][idx], alignment[2][idx], p), p)

AlignmentScore(alignment, p) == ScoreFrom(alignment, 1, 0, p)

\* max( scores ) of a non-empty list
RECURSIVE MaxFrom(_, _, _)
MaxFrom(list, i, best) ==
    IF i > Len(list) THEN best
    ELSE MaxFrom(list, i + 1, IF list[i] > best THEN list[i] ELSE best)
ListMax(list) == MaxFrom(list, 2, list[1])

\* as BestIndex, taking the last index that holds the maximum
RECURSIVE LastIndexFrom(_, _, _)
LastIndexFrom(list, x, i) ==
    IF i < 1 THEN -1
    ELSE IF list[i] = x THEN i - 1
    ELSE LastIndexFrom(list, x, i - 1)
BestIndexLast(list) == LastIndexFrom(list, ListMax(list), Len(list))

\* line 202: alignedStrings[ scores.index( max( scores )) ]
BestIndex(list) == ListIndex(list, ListMax(list))

GetBestAlignment ==
    /\ pc = "best"
    /\ LET computed == [k \in 1..Len(alignedStrings) |->
                           AlignmentScore(alignedStrings[k], param)]
       IN  /\ scores' = computed
           /\ IF Len(computed) = 0
              THEN \* max( [] ) raises ValueError at line 202
                   /\ pc' = "get_best_alignment_raised"
                   /\ UNCHANGED <<bestAlignment, maxScore>>
              ELSE /\ bestAlignment' = alignedStrings[BestIndex(computed) + 1]
                   /\ maxScore' = ListMax(computed)
                   /\ pc' = "done"
    /\ UNCHANGED <<seq1, seq2, param, dp, direction, stk, paths, pathId, divFlag,
                   dividerNode, pushCount, popCount, originPops, alignedStrings>>

(***************************************************************************)
(* main(): the four functions in sequence on one input.                    *)
(***************************************************************************)
\* nothing but the inputs is assigned before the first call
Unassigned ==
    /\ dp = None
    /\ direction = None
    /\ stk = <<>>
    /\ paths = <<>>
    /\ pathId = 0
    /\ divFlag = FALSE
    /\ dividerNode = None
    /\ pushCount = 0
    /\ popCount = 0
    /\ originPops = 0
    /\ scores = <<>>
    /\ bestAlignment = None
    /\ maxScore = 0

\* lines 207-216: the two sequences read and the scoring scheme
Init ==
    /\ seq1 \in SeqsUpTo(Alphabet, MaxLen)
    /\ seq2 \in SeqsUpTo(Alphabet, MaxLen)
    /\ param \in Params
    /\ alignedStrings = <<>>
    /\ Unassigned
    /\ pc = "build"

Next ==
    \/ BuildDpTable
    \/ TraceBackInit
    \/ TraceBackStep
    \/ TraceBackReturn
    \/ AlignStrings
    \/ GetBestAlignment

Spec == Init /\ [][Next]_vars

(***************************************************************************)
(* build_dp_table alone, on every pair of sequences of at most             *)
(* MaxTableSymbols symbols in total.                                       *)
(***************************************************************************)
MaxTableSymbols == 3

InitTable ==
    /\ seq1 \in SeqsUpTo(Alphabet, MaxTableSymbols)
    /\ seq2 \in SeqsUpTo(Alphabet, MaxTableSymbols - Len(seq1))
    /\ param \in Params
    /\ alignedStrings = <<>>
    /\ Unassigned
    /\ pc = "build"

NextTable == BuildDpTable

SpecTable == InitTable /\ [][NextTable]_vars

(***************************************************************************)
(* get_best_alignment alone, on every list of one to MaxAlignments          *)
(* alignments of one or two columns.  No column holds the gap symbol on    *)
(* both sides: no step of align_strings writes such a column.              *)
(***************************************************************************)
MaxAlignments == 2

SelectColumns ==
    { <<"A", "A">>, <<"A", "G">>, <<"C", "T">>, <<"X", "A">>,
      <<Gap, "A">>, <<"A", Gap>> }

AlignmentPool ==
    { << <<c[1]>>, <<c[2]>> >> : c \in SelectColumns }
      \cup { << <<c[1], e[1]>>, <<c[2], e[2]>> >> : c \in SelectColumns, e \in SelectColumns }

InitSelect ==
    /\ seq1 = <<>>
    /\ seq2 = <<>>
    /\ param \in Params
    /\ alignedStrings \in UNION {[1..len -> AlignmentPool] : len \in 1..MaxAlignments}
    /\ Unassigned
    /\ pc = "best"

NextSelect == GetBestAlignment

SpecSelect == InitSelect /\ [][NextSelect]_vars

(***************************************************************************)
(* The properties checked.  The definitions below are written from the     *)
(* statements, independently of the operators above.                       *)
(***************************************************************************)
M == Len(seq1)
N == Len(seq2)

\* trace_back has returned: paths is its result
Returned == pc \in {"align", "best", "done", "get_best_alignment_raised"}

\* align_strings has returned: alignedStrings is its result
Aligned == pc \in {"best", "done", "get_best_alignment_raised"}

\* the cell (0,0), which build_dp_table never assigns, reads as the empty string
OriginReadsEmpty == direction[<<0, 0>>] = ""

\* the set of arrows a direction string stands for
ArrowSet(x) ==
    CASE x = "l" -> {"l"}
      [] x = "u" -> {"u"}
      [] x = "d" -> {"d"}
      [] x = "lu" -> {"l", "u"}
      [] x = "ld" -> {"l", "d"}
      [] x = "ud" -> {"u", "d"}
      [] x = "lud" -> {"l", "u", "d"}
      [] OTHER -> {}

\* the cell an arrow points to
Predecessor(cell, arrow) ==
    CASE arrow = "l" -> <<cell[1], cell[2] - 1>>
      [] arrow = "u" -> <<cell[1] - 1, cell[2]>>
      [] arrow = "d" -> <<cell[1] - 1, cell[2] - 1>>

IsTableEdge(from, to) ==
    /\ from \in Cells(M, N)
    /\ \E arrow \in ArrowSet(direction[from]) : to = Predecessor(from, arrow)

\* every path from cell to (0,0) along the arrows of the direction table
RECURSIVE GraphPaths(_)
GraphPaths(cell) ==
    IF cell = <<0, 0>> THEN { <<cell>> }
    ELSE UNION { { <<cell>> \o rest : rest \in GraphPaths(Predecessor(cell, arrow)) } :
                 arrow \in ArrowSet(direction[cell]) }

ListRange(list) == { list[i] : i \in 1..Len(list) }

NoDuplicates(list) ==
    \A i \in 1..Len(list) : \A j \in 1..Len(list) : list[i] = list[j] => i = j

IsGap(c) == c = Gap
IsSymbol(c) == c /= Gap
WithoutGaps(str) == SelectSeq(str, IsSymbol)

Gaps(k) == [i \in 1..k |-> Gap]

\* match of the recurrence, by the classification rule of the scoring scheme
StatedMatch(a, b, p) ==
    IF a = b THEN p.identity
    ELSE IF {a, b} \subseteq {"A", "G"} \/ {a, b} \subseteq {"C", "T"} THEN p.transition
    ELSE p.transversion

Greatest(S) == CHOOSE x \in S : \A y \in S : x >= y

\* the three candidates of the recurrence at an interior cell
Candidate(i, j, arrow) ==
    CASE arrow = "l" -> dp[<<i, j - 1>>] + param.gap
      [] arrow = "u" -> dp[<<i - 1, j>>] + param.gap
      [] arrow = "d" -> dp[<<i - 1, j - 1>>] + StatedMatch(seq1[i], seq2[j], param)

Arrows == {"l", "u", "d"}

\* C1: trace_back returns at least one path, and every returned path has (m,n)
\* as its first coordinate and (0,0) as its last.  Stated for the runs in which
\* the cell (0,0) reads as the empty string.
C1_PathsRunFromEndToOrigin ==
    (Returned /\ OriginReadsEmpty) =>
        /\ Len(paths) >= 1
        /\ \A k \in 1..Len(paths) :
              /\ Len(paths[k]) >= 1
              /\ paths[k][1] = <<M, N>>
              /\ paths[k][Len(paths[k])] = <<0, 0>>

\* C2: in every returned path each consecutive pair of coordinates is one
\* direction-table edge: the second is the left, upper or diagonal neighbour of
\* the first and that arrow is in the direction set of the first.  Stated for
\* the runs in which the cell (0,0) reads as the empty string.
C2_StepsAreTableEdges ==
    (Returned /\ OriginReadsEmpty) =>
        \A k \in 1..Len(paths) : \A i \in 1..(Len(paths[k]) - 1) :
            IsTableEdge(paths[k][i], paths[k][i + 1])

\* C3: the returned list has no duplicates and, as a set, is the set of all
\* paths from (m,n) to (0,0) along the direction table's arrows.  Stated for
\* the runs in which the cell (0,0) reads as the empty string.
C3_AllGraphPathsOnce ==
    (Returned /\ OriginReadsEmpty) =>
        /\ NoDuplicates(paths)
        /\ ListRange(paths) = GraphPaths(<<M, N>>)

\* C4: deleting the gap symbol from the first string of every alignment gives
\* seq1, and from the second gives seq2.  Stated for the runs in which the cell
\* (0,0) reads as the empty string.
C4_AlignmentsSpellTheSequences ==
    (Aligned /\ OriginReadsEmpty) =>
        \A k \in 1..Len(alignedStrings) :
            /\ WithoutGaps(alignedStrings[k][1]) = seq1
            /\ WithoutGaps(alignedStrings[k][2]) = seq2

\* C5: the score get_best_alignment returns at the end of the pipeline equals
\* the final cell dp[m][n].  Stated for the runs in which the cell (0,0) reads
\* as the empty string.
C5_BestScoreIsFinalCell ==
    (pc = "done" /\ OriginReadsEmpty) => maxScore = dp[<<M, N>>]

\* C6: dp[0][j] = j*gap, dp[i][0] = i*gap, and every interior cell is the
\* greatest of the three candidates of the recurrence, match being identity
\* for equal symbols, transition for two symbols of one class, transversion
\* for every other pair.
C6_TableSatisfiesRecurrence ==
    pc = "trace" =>
        /\ \A j \in 0..N : dp[<<0, j>>] = j * param.gap
        /\ \A i \in 0..M : dp[<<i, 0>>] = i * param.gap
        /\ \A i \in 1..M : \A j \in 1..N :
              dp[<<i, j>>] = Greatest({ Candidate(i, j, arrow) : arrow \in Arrows })

\* a table with two rows whose final score is negative, built from a symbol
\* outside the two classes, a transition pair and the scheme main() uses
C6_Witness ==
    /\ pc = "trace"
    /\ param = DefaultParam
    /\ seq1 = <<"X", "C">>
    /\ seq2 = <<"T">>
    /\ dp[<<M, N>>] < 0

\* C7: every interior cell holds exactly the arrows whose candidate equals
\* dp[i][j] (never none), every cell of row 0 with j > 0 holds left only, every
\* cell of column 0 with i > 0 holds up only, and (0,0) is the only cell that
\* holds the empty set.
C7_DirectionTable ==
    pc /= "build" =>
        /\ \A i \in 1..M : \A j \in 1..N :
              /\ direction[<<i, j>>] \in DirCodes
              /\ ArrowSet(direction[<<i, j>>]) =
                     { arrow \in Arrows : Candidate(i, j, arrow) = dp[<<i, j>>] }
        /\ \A j \in 1..N : direction[<<0, j>>] = "l"
        /\ \A i \in 1..M : direction[<<i, 0>>] = "u"
        /\ \A cell \in Cells(M, N) : direction[cell] = "" <=> cell = <<0, 0>>

\* C8: when one sequence is empty and the other is s of length k, the pipeline
\* produces exactly one path and one alignment, k gap symbols against s, with
\* best score k*gap.
C8_EmptySequence ==
    (M = 0 \/ N = 0) =>
        LET k == M + N
            only == IF M = 0 THEN <<Gaps(k), seq2>> ELSE <<seq1, Gaps(k)>>
        IN  /\ pc \notin {"trace_back_raised", "get_best_alignment_raised"}
            /\ Returned => Len(paths) = 1
            /\ Aligned => alignedStrings = <<only>>
            /\ pc = "done" => (bestAlignment = only /\ maxScore = k * param.gap)

\* the score of one column: the gap penalty when either side is the gap symbol,
\* otherwise by the classification rule
StatedColumnScore(a, b, p) ==
    IF IsGap(a) \/ IsGap(b) THEN p.gap ELSE StatedMatch(a, b, p)

RECURSIVE StatedScore(_, _)
StatedScore(alignment, p) ==
    IF Len(alignment[1]) = 0 THEN 0
    ELSE StatedColumnScore(Head(alignment[1]), Head(alignment[2]), p)
           + StatedScore(<<Tail(alignment[1]), Tail(alignment[2])>>, p)

\* C9: for a non-empty list get_best_alignment returns the greatest recomputed
\* score and the alignment of smallest index among those that attain it.
C9_FirstOfTheBest ==
    /\ pc /= "get_best_alignment_raised"
    /\ pc = "done" =>
         LET stated == [k \in 1..Len(alignedStrings) |->
                           StatedScore(alignedStrings[k], param)]
             top == Greatest(ListRange(stated))
             first == CHOOSE k \in 1..Len(stated) :
                          stated[k] = top /\ \A j \in 1..(k - 1) : stated[j] < top
         IN  /\ maxScore = top
             /\ bestAlignment = alignedStrings[first]

\* two different alignments tie for the best score under the scheme main()
\* uses, each with a gap column, and the first one is returned
C9_Witness ==
    /\ pc = "done"
    /\ param = DefaultParam
    /\ alignedStrings = << << <<Gap, "A">>, <<"A", "A">> >>,
                           << <<"A", "A">>, <<"A", Gap>> >> >>
    /\ maxScore = -4
    /\ bestAlignment = alignedStrings[1]

\* C10: the loop of trace_back ends with the stack empty and without raising,
\* every coordinate pushed has then been popped, and the number of paths
\* returned is the number of times (0,0) was popped.
C10_LoopEndsCleanly ==
    /\ pc /= "trace_back_raised"
    /\ Returned =>
         /\ stk = <<>>
         /\ pushCount = popCount
         /\ Len(paths) = originPops

====
